---- MODULE Spec2Model ----
(***************************************************************************)
(* Servo actuator firmware of firesafe-embedded                            *)
(* (esp(firmware)/actuator_esp8266/actuator_esp8266.ino).                   *)
(*                                                                         *)
(* The file holds two programs: the manual-capable firmware (lines 1-279)  *)
(* and an older firmware without manual mode (lines 280-514).  Both are    *)
(* modelled, each with its own copy of the globals, and both are driven by *)
(* the same sequence of poll outcomes: one step of the model is one tick   *)
(* of loop() whose interval has elapsed, i.e. one checkCloudCommand().     *)
(*                                                                         *)
(* Further parts: the sensor firmware and the pass-by-pass loop() of a     *)
(* board (SpecLoop), the dashboard sensor monitor (SpecEval), and the      *)
(* dashboard servo control with the servo_config row (SpecEndToEnd).       *)
(***************************************************************************)
EXTENDS Integers, Sequences, FiniteSets

\* ------------------------------------------------------------------------
\* Bounds of the model: the manual_position values a payload may carry are
\* the multiples of ManualStride in  -ManualOver .. 180 + ManualOver.
ManualStride == 45
ManualOver == 45
\* Longest run of automatic MOVE ticks counted from cold start.
MaxColdMoves == 8
\* Sensor values shown by the dashboard are 1 .. MaxValue; every threshold_value is
\* ThresholdValue; a thresholds list holds at most MaxThresholds configs.
MaxValue == 3
ThresholdValue == 2
MaxThresholds == 2
\* millis() counts seconds modulo 2^MillisBits; one pass of loop() takes
\* 1 .. MaxAdvance seconds.
MillisBits == 3
MaxAdvance == 2

\* ------------------------------------------------------------------------
\* Program constants.
STEP == 30
MIN_ANGLE == 0
MAX_ANGLE == 180
INITIAL_ANGLE == 90
REVERSE_FROM_MAX == 150
COMMAND_CHECK_INTERVAL == 3
READING_INTERVAL == 3
WIFI_ATTEMPTS == 20

VARIABLES
    actuator,   \* globals of the manual-capable firmware, plus the servo writes of the last tick
    older,      \* globals of the older firmware, plus the servo writes of the last tick
    response,   \* outcome of the poll handled by the last tick (httpResponseCode and payload)
    coldMoves,  \* number of ticks since cold start while all of them were automatic MOVE, else -1
    node,       \* one board running loop(): which firmware, its clock, WiFi, and its last pass
    sensor,     \* globals of the sensor firmware, plus the payloads posted by the last tick
    control,    \* dashboard servo control: its refs mode, currentPosition, loading, message
    servo_config, \* the servo_config row of the authority: mode and manual_position
    lastWrite,  \* the last operator request the authority stored, its position, and the
                \* number of successful polls of the actuator since (counted up to 2)
    pending,    \* requests of the servo control in flight: the fetchCurrentMode poll and
                \* the operator call (switchMode / setManualPosition)
    monitor,    \* dashboard sensor monitor: its props (reading, thresholds) and what it shows
    beforeManual \* phase and direction of the actuator at the end of the last tick that
                 \* processed no manual command; resumed: that tick directly followed a manual one

vars == <<actuator, older, response, coldMoves, beforeManual, monitor, node, sensor,
          control, servo_config, lastWrite, pending>>

\* The variables of the actuator ticks, and those of the dashboard servo control.
Firmware == <<actuator, older, response, coldMoves, beforeManual>>
Panel == <<control, servo_config, lastWrite, pending>>

\* ------------------------------------------------------------------------
\* Poll outcomes: what http.GET() and the payload of one tick look like.

ManualPositions == {p \in (0 - ManualOver)..(MAX_ANGLE + ManualOver) : p % ManualStride = 0}
InRangePositions == {p \in ManualPositions : p >= MIN_ANGLE /\ p <= MAX_ANGLE}

Modes == {"automatic", "manual", "null"}
Commands == {"move", "stop", "null"}

Poll(code, err, ok, m, c, hasPos, pos, met) ==
    [httpResponseCode |-> code, error |-> err, success |-> ok, mode |-> m,
     command |-> c, has_manual_position |-> hasPos, manual_position |-> pos,
     thresholds_met |-> met]

NoResponse == Poll(0, FALSE, FALSE, "null", "null", FALSE, 0, FALSE)

TransportPolls == {Poll(code, FALSE, FALSE, "null", "null", FALSE, 0, FALSE) : code \in {-1, 0}}
MalformedPolls == {Poll(200, TRUE, FALSE, "null", "null", FALSE, 0, FALSE)}
ErrorPolls == {Poll(200, FALSE, FALSE, "null", "null", FALSE, 0, FALSE)}
ManualPolls(positions) ==
    {Poll(200, FALSE, TRUE, "manual", c, TRUE, p, FALSE) : c \in Commands, p \in positions}
    \cup {Poll(200, FALSE, TRUE, "manual", c, FALSE, 0, FALSE) : c \in Commands}
AutomaticPolls(c) ==
    {Poll(200, FALSE, TRUE, "automatic", c, FALSE, 0, met) : met \in BOOLEAN}
UnknownModePolls ==
    {Poll(200, FALSE, TRUE, "null", c, FALSE, 0, FALSE) : c \in Commands}
\* Variant: the dashboard also offers the half steps 15, 45, ...
positions_halfSteps == {p \in 0..180 : p % 15 = 0}

\* The position buttons of the dashboard.
positions == {0, 30, 60, 90, 120, 150, 180}
\* An automatic payload that also carries a manual_position of the dashboard.
StoredPositionPolls(c) ==
    {Poll(200, FALSE, TRUE, "automatic", c, TRUE, p, met) : p \in positions, met \in BOOLEAN}
\* Every poll outcome whose payload parses with success = true.
ParsedPolls ==
    ManualPolls(ManualPositions) \cup UnknownModePolls
    \cup UNION {AutomaticPolls(c) : c \in Commands}
\* The poll outcomes of the loop-level specifications.
LoopPolls ==
    TransportPolls \cup ManualPolls({MAX_ANGLE}) \cup AutomaticPolls("move")
    \cup AutomaticPolls("stop")

\* ------------------------------------------------------------------------
\* Manual-capable firmware.

ColdStart ==
    [currentMode |-> "automatic", currentPosition |-> INITIAL_ANGLE,
     isInitialPhase |-> TRUE, movingUp |-> TRUE, servoShouldMove |-> TRUE,
     myServo |-> <<>>]

\* myServo.write(angle); currentPosition = angle;
WriteServo(s, angle) ==
    [s EXCEPT !.myServo = Append(@, angle), !.currentPosition = angle]

\* Variant: the oscillation steps by 30 without clamping the result to 0 / 180.
moveToNextPosition_noClamp(s) ==
    IF s.isInitialPhase
    THEN IF s.currentPosition > 0
         THEN WriteServo(s, s.currentPosition - STEP)
         ELSE WriteServo([s EXCEPT !.movingUp = TRUE, !.isInitialPhase = FALSE], STEP)
    ELSE IF s.movingUp
         THEN IF s.currentPosition < MAX_ANGLE
              THEN WriteServo(s, s.currentPosition + STEP)
              ELSE WriteServo([s EXCEPT !.movingUp = FALSE], REVERSE_FROM_MAX)
         ELSE IF s.currentPosition > 0
              THEN WriteServo(s, s.currentPosition - STEP)
              ELSE WriteServo([s EXCEPT !.movingUp = TRUE], STEP)

\* Variant: the initial sweep tests >= 0, so it steps below 0 before switching phase.
moveToNextPosition_sweepPastZero(s) ==
    IF s.isInitialPhase
    THEN IF s.currentPosition >= 0
         THEN WriteServo(s, s.currentPosition - STEP)
         ELSE WriteServo([s EXCEPT !.movingUp = TRUE, !.isInitialPhase = FALSE], STEP)
    ELSE IF s.movingUp
         THEN IF s.currentPosition < MAX_ANGLE
              THEN WriteServo(s, IF s.currentPosition + STEP > MAX_ANGLE
                                 THEN MAX_ANGLE ELSE s.currentPosition + STEP)
              ELSE WriteServo([s EXCEPT !.movingUp = FALSE], REVERSE_FROM_MAX)
         ELSE IF s.currentPosition > 0
              THEN WriteServo(s, IF s.currentPosition - STEP < 0
                                 THEN 0 ELSE s.currentPosition - STEP)
              ELSE WriteServo([s EXCEPT !.movingUp = TRUE], STEP)

\* Variant: the reversal at 180 steps back to 150 but forgets to clear movingUp.
moveToNextPosition_noFlipAtMax(s) ==
    IF s.isInitialPhase
    THEN IF s.currentPosition > 0
         THEN WriteServo(s, s.currentPosition - STEP)
         ELSE WriteServo([s EXCEPT !.movingUp = TRUE, !.isInitialPhase = FALSE], STEP)
    ELSE IF s.movingUp
         THEN IF s.currentPosition < MAX_ANGLE
              THEN WriteServo(s, IF s.currentPosition + STEP > MAX_ANGLE
                                 THEN MAX_ANGLE ELSE s.currentPosition + STEP)
              ELSE WriteServo(s, REVERSE_FROM_MAX)
         ELSE IF s.currentPosition > 0
              THEN WriteServo(s, IF s.currentPosition - STEP < 0
                                 THEN 0 ELSE s.currentPosition - STEP)
              ELSE WriteServo([s EXCEPT !.movingUp = TRUE], STEP)

moveToNextPosition(s) ==
    IF s.isInitialPhase
    THEN IF s.currentPosition > 0
         THEN WriteServo(s, s.currentPosition - STEP)
         ELSE WriteServo([s EXCEPT !.movingUp = TRUE, !.isInitialPhase = FALSE], STEP)
    ELSE IF s.movingUp
         THEN IF s.currentPosition < MAX_ANGLE
              THEN WriteServo(s, IF s.currentPosition + STEP > MAX_ANGLE
                                 THEN MAX_ANGLE ELSE s.currentPosition + STEP)
              ELSE WriteServo([s EXCEPT !.movingUp = FALSE], REVERSE_FROM_MAX)
         ELSE IF s.currentPosition > 0
              THEN WriteServo(s, IF s.currentPosition - STEP < 0
                                 THEN 0 ELSE s.currentPosition - STEP)
              ELSE WriteServo([s EXCEPT !.movingUp = TRUE], STEP)

\* Variant: a missing manual_position is read as 90, the default of the dashboard.
ManualPos_missingIs90(r) == IF r.has_manual_position THEN r.manual_position ELSE INITIAL_ANGLE

\* int manualPos = doc["manual_position"];  (a missing key converts to 0)
ManualPos(r) == IF r.has_manual_position THEN r.manual_position ELSE 0

\* Variant: entering a manual position restarts the initial sweep.
ManualBranch_restartSweep(s, r) ==
    IF ManualPos(r) # s.currentPosition
    THEN WriteServo([s EXCEPT !.isInitialPhase = TRUE], ManualPos(r))
    ELSE s

\* Variant: the servo is written on every manual tick, also when already there.
ManualBranch_alwaysWrite(s, r) ==
    WriteServo(s, ManualPos(r))

ManualBranch(s, r) ==
    IF ManualPos(r) # s.currentPosition
    THEN WriteServo(s, ManualPos(r))
    ELSE s

\* Variant: a command that is neither stop nor move is taken as move.
AutomaticBranch_defaultMove(s, r) ==
    IF r.command = "stop"
    THEN [s EXCEPT !.servoShouldMove = FALSE]
    ELSE moveToNextPosition([s EXCEPT !.servoShouldMove = TRUE])

\* Variant: moveToNextPosition() is called after the command test, for stop as well.
AutomaticBranch_moveOnStop(s, r) ==
    IF r.command = "stop"
    THEN moveToNextPosition([s EXCEPT !.servoShouldMove = FALSE])
    ELSE IF r.command = "move"
         THEN moveToNextPosition([s EXCEPT !.servoShouldMove = TRUE])
         ELSE s

\* Variant: the step is gated by thresholds_met instead of by the command.
AutomaticBranch_gateOnThresholds(s, r) ==
    IF r.command = "stop"
    THEN [s EXCEPT !.servoShouldMove = FALSE]
    ELSE IF r.command = "move"
         THEN IF r.thresholds_met
              THEN [s EXCEPT !.servoShouldMove = TRUE]
              ELSE moveToNextPosition([s EXCEPT !.servoShouldMove = TRUE])
         ELSE s

AutomaticBranch(s, r) ==
    IF r.command = "stop"
    THEN [s EXCEPT !.servoShouldMove = FALSE]
    ELSE IF r.command = "move"
         THEN moveToNextPosition([s EXCEPT !.servoShouldMove = TRUE])
         ELSE s

\* Variant: a detected mode change restarts the initial sweep.
parseCloudCommand_resetOnModeChange(s, r) ==
    IF r.error
    THEN s
    ELSE IF r.success
         THEN LET t == IF r.mode # s.currentMode
                       THEN [s EXCEPT !.currentMode = r.mode, !.isInitialPhase = TRUE,
                                      !.movingUp = TRUE]
                       ELSE s
              IN  IF r.mode = "manual"
                  THEN ManualBranch(t, r)
                  ELSE IF r.mode = "automatic"
                       THEN AutomaticBranch(t, r)
                       ELSE t
         ELSE s

\* Variant: a payload that does not parse defaults to MOVE.
parseCloudCommand_errorMoves(s, r) ==
    IF r.error
    THEN moveToNextPosition([s EXCEPT !.servoShouldMove = TRUE])
    ELSE IF r.success
         THEN LET t == IF r.mode # s.currentMode THEN [s EXCEPT !.currentMode = r.mode] ELSE s
              IN  IF r.mode = "manual"
                  THEN ManualBranch(t, r)
                  ELSE IF r.mode = "automatic"
                       THEN AutomaticBranch(t, r)
                       ELSE t
         ELSE s

parseCloudCommand(s, r) ==
    IF r.error
    THEN s
    ELSE IF r.success
         THEN LET t == IF r.mode # s.currentMode THEN [s EXCEPT !.currentMode = r.mode] ELSE s
              IN  IF r.mode = "manual"
                  THEN ManualBranch(t, r)
                  ELSE IF r.mode = "automatic"
                       THEN AutomaticBranch(t, r)
                       ELSE t
         ELSE s

\* Variant: a failed GET defaults to MOVE, as the older firmware does.
checkCloudCommand_failOpen(s, r) ==
    IF r.httpResponseCode > 0
    THEN parseCloudCommand(s, r)
    ELSE moveToNextPosition([s EXCEPT !.servoShouldMove = TRUE])

checkCloudCommand(s, r) ==
    IF r.httpResponseCode > 0
    THEN parseCloudCommand(s, r)
    ELSE s

\* One tick of loop() whose interval has elapsed.
loop(s, r) == checkCloudCommand([s EXCEPT !.myServo = <<>>], r)

\* ------------------------------------------------------------------------
\* Older firmware (second program of the file).

ColdStart_old ==
    [currentPosition |-> INITIAL_ANGLE, isInitialPhase |-> TRUE, movingUp |-> TRUE,
     servoShouldMove |-> TRUE, myServo |-> <<>>]

moveToNextPosition_old(s) ==
    IF s.isInitialPhase
    THEN IF s.currentPosition > 0
         THEN WriteServo(s, s.currentPosition - STEP)
         ELSE WriteServo([s EXCEPT !.movingUp = TRUE, !.isInitialPhase = FALSE], STEP)
    ELSE IF s.movingUp
         THEN IF s.currentPosition < MAX_ANGLE
              THEN WriteServo(s, IF s.currentPosition + STEP > MAX_ANGLE
                                 THEN MAX_ANGLE ELSE s.currentPosition + STEP)
              ELSE WriteServo([s EXCEPT !.movingUp = FALSE], REVERSE_FROM_MAX)
         ELSE IF s.currentPosition > 0
              THEN WriteServo(s, IF s.currentPosition - STEP < 0
                                 THEN 0 ELSE s.currentPosition - STEP)
              ELSE WriteServo([s EXCEPT !.movingUp = TRUE], STEP)

parseCloudCommand_old(s, r) ==
    IF r.error
    THEN s
    ELSE IF r.success
         THEN IF r.command = "stop"
              THEN [s EXCEPT !.servoShouldMove = FALSE]
              ELSE IF r.command = "move"
                   THEN [s EXCEPT !.servoShouldMove = TRUE]
                   ELSE s
         ELSE [s EXCEPT !.servoShouldMove = TRUE]

\* Variant: a failed GET leaves servoShouldMove as it is.
checkCloudCommand_old_holdOnFailure(s, r) ==
    IF r.httpResponseCode > 0
    THEN parseCloudCommand_old(s, r)
    ELSE s

checkCloudCommand_old(s, r) ==
    IF r.httpResponseCode > 0
    THEN parseCloudCommand_old(s, r)
    ELSE [s EXCEPT !.servoShouldMove = TRUE]

\* Variant: the older loop() steps the servo on every tick.
loop_old_ignoreStop(s, r) ==
    moveToNextPosition_old(checkCloudCommand_old([s EXCEPT !.myServo = <<>>], r))

\* One tick of loop() whose interval has elapsed.
loop_old(s, r) ==
    LET t == checkCloudCommand_old([s EXCEPT !.myServo = <<>>], r)
    IN  IF t.servoShouldMove THEN moveToNextPosition_old(t) ELSE t

\* ------------------------------------------------------------------------
\* Sensor firmware (sensors_esp8266.ino).

\* A float: a number or NaN.
NaN == [nan |-> TRUE, v |-> 0]
Num(x) == [nan |-> FALSE, v |-> x]
isnan(x) == x.nan

\* What dht.readHumidity() / dht.readTemperature() may return.
DhtReads == {NaN} \cup {Num(x) : x \in 1..MaxValue}
\* What analogRead(MQ2_PIN) may return.
AnalogReads == 1..MaxValue

SensorStart ==
    [temperature |-> Num(0), humidity |-> Num(0), mq2Value |-> 0,
     isCalibrated |-> TRUE, posted |-> <<>>]

readSensors(s, h, t, g) ==
    [s EXCEPT !.humidity = h, !.temperature = t, !.mq2Value = g]

\* serializeJson of a float member: NaN is written as null
JsonFloat(x) == IF isnan(x) THEN << >> ELSE <<x.v>>

sendDataToCloud(s) ==
    IF ~s.isCalibrated
    THEN s
    ELSE [s EXCEPT !.posted = Append(@, [sensor_1 |-> JsonFloat(s.temperature),
                                         sensor_2 |-> JsonFloat(s.humidity),
                                         sensor_3 |-> s.mq2Value])]

\* One tick of loop() whose interval has elapsed.
loop_sensor(s, h, t, g) ==
    sendDataToCloud(readSensors([s EXCEPT !.posted = <<>>], h, t, g))

\* ------------------------------------------------------------------------
\* loop() of a board: WiFi check, interval test on millis(), delay.

NodeKinds == {"actuator", "older", "sensor"}
MILLIS_MODULUS == 2 ^ MillisBits

Boot(kind) ==
    [kind |-> kind, millis |-> 1, lastCheck |-> 0, wifi |-> "connected",
     halted |-> FALSE, ticked |-> FALSE, requests |-> 0, elapsed |-> -1, sinceTick |-> -1]

Interval(kind) == IF kind = "sensor" THEN READING_INTERVAL ELSE COMMAND_CHECK_INTERVAL

\* while (WiFi.status() != WL_CONNECTED && attempts < 20) { delay(500); attempts++; }
\* The association completes after `after` waits of 500 ms.
RECURSIVE waitForWiFi(_, _)
waitForWiFi(attempts, after) ==
    IF attempts < after /\ attempts < WIFI_ATTEMPTS
    THEN waitForWiFi(attempts + 1, after)
    ELSE attempts

\* "connected", or "halt" for the final while(1) { delay(1000); }
connectToWiFi(after) ==
    IF waitForWiFi(0, after) >= after THEN "connected" ELSE "halt"

\* The outcomes of the WiFi check at the top of loop().
Associations ==
    IF node.wifi = "connected" THEN {0} ELSE {0, WIFI_ATTEMPTS, WIFI_ATTEMPTS + 1}
Associated(after) == node.wifi = "connected" \/ connectToWiFi(after) = "connected"

\* Variant: the difference is taken on signed integers, without the modulus.
Due_signed(now, last, interval) == now - last >= interval

\* Variant: the test forgets lastCheck.
Due_ignoresLast(now, last, interval) == now >= interval

\* currentTime - lastCheck >= INTERVAL on unsigned counters
Due(now, last, interval) == (now - last + MILLIS_MODULUS) % MILLIS_MODULUS >= interval

Now(d) == (node.millis + d) % MILLIS_MODULUS

\* The board after a pass of loop() that took d seconds and ran a tick / no tick.
Ticked(d, requests) ==
    [node EXCEPT !.millis = Now(d), !.lastCheck = Now(d), !.wifi = "connected",
                 !.ticked = TRUE, !.requests = requests,
                 !.elapsed = IF node.sinceTick < 0 THEN -1 ELSE node.sinceTick + d,
                 !.sinceTick = 0]
Idled(d) ==
    [node EXCEPT !.millis = Now(d), !.wifi = "connected",
                 !.ticked = FALSE, !.requests = 0, !.elapsed = -1,
                 !.sinceTick = IF node.sinceTick < 0 THEN -1 ELSE node.sinceTick + d]

\* ------------------------------------------------------------------------
\* Dashboard sensor monitor (sensor_monitor.vue) and the aggregate all_met.

Sensors == {"temperature", "humidity", "gas"}
Operators == {">", "<", ">=", "<=", "="}
Values == 1..MaxValue

\* A value that may be null is a sequence: << >> for null, <<v>> for the number v.
Null == << >>
Some(v) == <<v>>

ThresholdConfigs ==
    [sensor_name : Sensors, comparison_operator : Operators, threshold_value : {ThresholdValue}]

Reading(t, h, g) == [temperature |-> t, humidity |-> h, gas |-> g]
FirstReading == Reading(1, 1, Null)

\* props.thresholds.find(t => t.sensor_name === sensorName): Null when undefined
RECURSIVE find(_, _)
find(thresholds, sensorName) ==
    IF thresholds = <<>>
    THEN Null
    ELSE IF Head(thresholds).sensor_name = sensorName
         THEN Some(Head(thresholds))
         ELSE find(Tail(thresholds), sensorName)

\* Variant: the last config of the sensor in list order is used.
getThresholdForSensor_lastMatch(thresholds, sensorName) ==
    LET matches == {i \in 1..Len(thresholds) : thresholds[i].sensor_name = sensorName}
    IN  IF matches = {}
        THEN Null
        ELSE Some(thresholds[CHOOSE i \in matches : \A j \in matches : j <= i])

getThresholdForSensor(thresholds, sensorName) == find(thresholds, sensorName)

\* Variant: '>=' is evaluated as '>'.
checkThreshold_geAsGt(thresholds, value, sensorName) ==
    LET threshold == getThresholdForSensor(thresholds, sensorName)
    IN  IF threshold = Null
        THEN FALSE
        ELSE LET t == threshold[1]
             IN  CASE t.comparison_operator = ">" -> value > t.threshold_value
                   [] t.comparison_operator = "<" -> value < t.threshold_value
                   [] t.comparison_operator = ">=" -> value > t.threshold_value
                   [] t.comparison_operator = "<=" -> value <= t.threshold_value
                   [] t.comparison_operator = "=" -> value = t.threshold_value
                   [] OTHER -> FALSE

checkThreshold(thresholds, value, sensorName) ==
    LET threshold == getThresholdForSensor(thresholds, sensorName)
    IN  IF threshold = Null
        THEN FALSE
        ELSE LET t == threshold[1]
             IN  CASE t.comparison_operator = ">" -> value > t.threshold_value
                   [] t.comparison_operator = "<" -> value < t.threshold_value
                   [] t.comparison_operator = ">=" -> value >= t.threshold_value
                   [] t.comparison_operator = "<=" -> value <= t.threshold_value
                   [] t.comparison_operator = "=" -> value = t.threshold_value
                   [] OTHER -> FALSE

\* The value of a sensor in a reading, Null when absent (only gas can be).
ValueOf(reading, sensorName) ==
    CASE sensorName = "temperature" -> Some(reading.temperature)
      [] sensorName = "humidity" -> Some(reading.humidity)
      [] sensorName = "gas" -> reading.gas

\* The status indicator of each sensor card: <<TRUE>> active, <<FALSE>> inactive,
\* Null when the card is not rendered (the gas card when reading.gas is null).
StatusIndicators(reading, thresholds) ==
    [n \in Sensors |->
        IF n = "gas" /\ reading.gas = Null
        THEN Null
        ELSE Some(checkThreshold(thresholds, ValueOf(reading, n)[1], n))]

\* Variant: a configured sensor without a reading counts as not met.
allMet_absentFails(reading, thresholds) ==
    \A n \in Sensors :
        getThresholdForSensor(thresholds, n) # Null =>
            /\ ValueOf(reading, n) # Null
            /\ checkThreshold(thresholds, ValueOf(reading, n)[1], n)

\* all_met of the authority: AND over every sensor that has a configured threshold
\* and a reading value.
allMet(reading, thresholds) ==
    \A n \in Sensors :
        (getThresholdForSensor(thresholds, n) # Null /\ ValueOf(reading, n) # Null) =>
            checkThreshold(thresholds, ValueOf(reading, n)[1], n)

Monitor(reading, thresholds) ==
    [reading |-> reading, thresholds |-> thresholds,
     met |-> StatusIndicators(reading, thresholds),
     all_met |-> allMet(reading, thresholds)]

\* ------------------------------------------------------------------------
\* Dashboard servo control (unnamed/part_000) and the servo_config row it writes
\* through the set-servo-mode function of the authority.

ServoControlStart ==
    [mode |-> "automatic", currentPosition |-> 90, loading |-> FALSE, message |-> "none"]

ServoConfigStart == [mode |-> "automatic", manual_position |-> Null]

\* body of the POST of switchMode(newMode)
switchModePayload(c, newMode) ==
    [mode |-> newMode,
     manual_position |-> IF newMode = "manual" THEN Some(c.currentPosition) ELSE Null]

\* Variant: setManualPosition posts the mode only.
setManualPositionPayload_modeOnly(position) ==
    [mode |-> "manual", manual_position |-> Null]

\* body of the POST of setManualPosition(position)
setManualPositionPayload(position) ==
    [mode |-> "manual", manual_position |-> Some(position)]

\* set-servo-mode of the authority: stores the mode, and the manual_position when
\* the request carries one.
set_servo_mode(config, payload) ==
    [mode |-> payload.mode,
     manual_position |-> IF payload.manual_position # Null
                         THEN payload.manual_position ELSE config.manual_position]

\* The answer of the authority to a command poll: the stored mode and
\* manual_position, and the command and thresholds_met it derives from the readings.
poll_command(config, c, met) ==
    Poll(200, FALSE, TRUE, config.mode, c, config.manual_position # Null,
         IF config.manual_position # Null THEN config.manual_position[1] ELSE 0, met)

\* mode.value = data.mode; currentPosition.value = data.manual_position ?? 90
fetchCurrentMode(c, data) ==
    [c EXCEPT !.mode = data.mode,
              !.currentPosition = IF data.manual_position = Null
                                  THEN 90 ELSE data.manual_position[1]]

\* No request in flight.  fetch.overtaken: the authority stored an operator request
\* after this fetch read the row; fetch.stale: and the success of that request has
\* been displayed.  call.result is kept after the call has settled.
NothingPending ==
    [fetch |-> [state |-> "idle", data |-> ServoConfigStart, overtaken |-> FALSE,
                stale |-> FALSE],
     call |-> [state |-> "idle", op |-> "none", payload |-> switchModePayload(ServoControlStart, "automatic"),
               result |-> "none"]]

\* switchMode / setManualPosition after the response arrived (finally: loading = false)
Acknowledged(c, ok) ==
    [c EXCEPT !.loading = FALSE, !.message = IF ok THEN "success" ELSE "error"]

\* Variant: the display is updated whatever the answer was.
settled_optimistic(c, call) ==
    Acknowledged(IF call.op = "switchMode"
                 THEN [c EXCEPT !.mode = call.payload.mode]
                 ELSE [c EXCEPT !.currentPosition = call.payload.manual_position[1]],
                 call.result = "success")

\* switchMode / setManualPosition from the await of fetch() on: the try body after
\* the response, the catch, and the finally.
settled(c, call) ==
    IF call.result = "success"
    THEN Acknowledged(IF call.op = "switchMode"
                      THEN [c EXCEPT !.mode = call.payload.mode]
                      ELSE [c EXCEPT !.currentPosition = call.payload.manual_position[1]],
                      TRUE)
    ELSE Acknowledged(c, FALSE)

\* ------------------------------------------------------------------------
\* Classification of a poll outcome, as the firmware decides it.

IsTransportFailure(r) == r.httpResponseCode <= 0
IsParsed(r) == r.httpResponseCode > 0 /\ ~r.error /\ r.success
IsManual(r) == IsParsed(r) /\ r.mode = "manual"
IsMove(r) == IsParsed(r) /\ r.mode = "automatic" /\ r.command = "move"
IsMalformed(r) == r.httpResponseCode > 0 /\ r.error
IsAutomatic(r) == IsParsed(r) /\ r.mode = "automatic"
IsCloudError(r) == r.httpResponseCode > 0 /\ ~r.error /\ ~r.success
IsStop(r) == IsParsed(r) /\ r.mode = "automatic" /\ r.command = "stop"

\* ------------------------------------------------------------------------
\* Behaviour.

InitFirmware(kind) ==
    /\ node = Boot(kind)
    /\ sensor = SensorStart
    /\ actuator = ColdStart
    /\ older = ColdStart_old
    /\ response = NoResponse
    /\ coldMoves = 0
    /\ beforeManual = [isInitialPhase |-> TRUE, movingUp |-> TRUE, resumed |-> FALSE]
    /\ monitor = Monitor(FirstReading, <<>>)
    /\ control = ServoControlStart
    /\ servo_config = ServoConfigStart
    /\ lastWrite = [by |-> "none", position |-> 0, polls |-> 0]
    /\ pending = NothingPending

\* The tick-level specifications follow the manual-capable actuator board.
Init == InitFirmware("actuator")

\* The loop-level specifications follow one board, running any of the firmwares.
InitLoop == \E kind \in NodeKinds : InitFirmware(kind)

\* Bookkeeping of a tick that handles the poll outcome r.
coldMovesAfter(r) ==
    IF coldMoves >= 0 /\ coldMoves < MaxColdMoves /\ IsMove(r)
    THEN coldMoves + 1 ELSE -1

beforeManualAfter(r) ==
    IF IsManual(r)
    THEN [beforeManual EXCEPT !.resumed = FALSE]
    ELSE [isInitialPhase |-> loop(actuator, r).isInitialPhase,
          movingUp |-> loop(actuator, r).movingUp,
          resumed |-> IsManual(response)]

\* Each action is one tick of loop() in both firmwares, for one kind of poll outcome.

\* Tick: http.GET() returns a code <= 0.
TransportFailure ==
    \E r \in TransportPolls :
        /\ response' = r
        /\ actuator' = loop(actuator, r)
        /\ older' = loop_old(older, r)
        /\ coldMoves' = coldMovesAfter(r)
        /\ beforeManual' = beforeManualAfter(r)
        /\ UNCHANGED <<Panel, monitor, node, sensor>>

\* Tick: deserializeJson() reports an error.
MalformedPayload ==
    \E r \in MalformedPolls :
        /\ response' = r
        /\ actuator' = loop(actuator, r)
        /\ older' = loop_old(older, r)
        /\ coldMoves' = coldMovesAfter(r)
        /\ beforeManual' = beforeManualAfter(r)
        /\ UNCHANGED <<Panel, monitor, node, sensor>>

\* Tick: the payload parses but success is not true.
CloudError ==
    \E r \in ErrorPolls :
        /\ response' = r
        /\ actuator' = loop(actuator, r)
        /\ older' = loop_old(older, r)
        /\ coldMoves' = coldMovesAfter(r)
        /\ beforeManual' = beforeManualAfter(r)
        /\ UNCHANGED <<Panel, monitor, node, sensor>>

\* Tick: mode is manual; manual_position is any value of the model, or missing.
ManualCommand ==
    \E r \in ManualPolls(ManualPositions) :
        /\ response' = r
        /\ actuator' = loop(actuator, r)
        /\ older' = loop_old(older, r)
        /\ coldMoves' = coldMovesAfter(r)
        /\ beforeManual' = beforeManualAfter(r)
        /\ UNCHANGED <<Panel, monitor, node, sensor>>

\* Tick: mode is manual; manual_position lies in [0,180], or is missing.
ManualCommandInRange ==
    \E r \in ManualPolls(InRangePositions) :
        /\ response' = r
        /\ actuator' = loop(actuator, r)
        /\ older' = loop_old(older, r)
        /\ coldMoves' = coldMovesAfter(r)
        /\ beforeManual' = beforeManualAfter(r)
        /\ UNCHANGED <<Panel, monitor, node, sensor>>

\* Tick: mode is automatic, command is move.
AutomaticMove ==
    \E r \in AutomaticPolls("move") :
        /\ response' = r
        /\ actuator' = loop(actuator, r)
        /\ older' = loop_old(older, r)
        /\ coldMoves' = coldMovesAfter(r)
        /\ beforeManual' = beforeManualAfter(r)
        /\ UNCHANGED <<Panel, monitor, node, sensor>>

\* Tick: mode is automatic, command is stop.
AutomaticStop ==
    \E r \in AutomaticPolls("stop") :
        /\ response' = r
        /\ actuator' = loop(actuator, r)
        /\ older' = loop_old(older, r)
        /\ coldMoves' = coldMovesAfter(r)
        /\ beforeManual' = beforeManualAfter(r)
        /\ UNCHANGED <<Panel, monitor, node, sensor>>

\* Tick: mode is automatic, command is neither move nor stop.
UnknownCommand ==
    \E r \in AutomaticPolls("null") :
        /\ response' = r
        /\ actuator' = loop(actuator, r)
        /\ older' = loop_old(older, r)
        /\ coldMoves' = coldMovesAfter(r)
        /\ beforeManual' = beforeManualAfter(r)
        /\ UNCHANGED <<Panel, monitor, node, sensor>>

\* Tick: mode is neither automatic nor manual.
UnknownMode ==
    \E r \in UnknownModePolls :
        /\ response' = r
        /\ actuator' = loop(actuator, r)
        /\ older' = loop_old(older, r)
        /\ coldMoves' = coldMovesAfter(r)
        /\ beforeManual' = beforeManualAfter(r)
        /\ UNCHANGED <<Panel, monitor, node, sensor>>

Next ==
    \/ TransportFailure
    \/ MalformedPayload
    \/ CloudError
    \/ ManualCommand
    \/ AutomaticMove
    \/ AutomaticStop
    \/ UnknownCommand
    \/ UnknownMode

Spec == Init /\ [][Next]_vars

\* The props of the sensor monitor change: a threshold config is added to or
\* removed from the list, or a new reading arrives; the component re-renders.

AddThreshold ==
    \E c \in ThresholdConfigs :
        /\ Len(monitor.thresholds) < MaxThresholds
        /\ monitor' = Monitor(monitor.reading, Append(monitor.thresholds, c))
        /\ UNCHANGED <<Panel, Firmware, node, sensor>>

RemoveThreshold ==
    /\ monitor.thresholds # <<>>
    /\ monitor' = Monitor(monitor.reading, Tail(monitor.thresholds))
    /\ UNCHANGED <<Panel, Firmware, node, sensor>>

TemperatureReading ==
    \E v \in Values :
        /\ monitor' = Monitor([monitor.reading EXCEPT !.temperature = v], monitor.thresholds)
        /\ UNCHANGED <<Panel, Firmware, node, sensor>>

HumidityReading ==
    \E v \in Values :
        /\ monitor' = Monitor([monitor.reading EXCEPT !.humidity = v], monitor.thresholds)
        /\ UNCHANGED <<Panel, Firmware, node, sensor>>

GasReading ==
    \E g \in {Null} \cup {Some(v) : v \in Values} :
        /\ monitor' = Monitor([monitor.reading EXCEPT !.gas = g], monitor.thresholds)
        /\ UNCHANGED <<Panel, Firmware, node, sensor>>

NextEval ==
    \/ AddThreshold
    \/ RemoveThreshold
    \/ TemperatureReading
    \/ HumidityReading
    \/ GasReading

SpecEval == Init /\ [][NextEval]_vars

\* ------------------------------------------------------------------------
\* Loop level: one board, pass by pass.

\* The access point goes away.
WifiDrop ==
    /\ ~node.halted
    /\ node.wifi = "connected"
    /\ node' = [node EXCEPT !.wifi = "lost"]
    /\ UNCHANGED <<Panel, Firmware, monitor, sensor>>

\* A pass of loop() in which connectToWiFi() gives up: while(1) { delay(1000); }
LoopHalt ==
    \E after \in Associations :
        /\ ~node.halted
        /\ ~Associated(after)
        /\ node' = [node EXCEPT !.halted = TRUE, !.ticked = FALSE, !.requests = 0,
                                !.elapsed = -1]
        /\ UNCHANGED <<Panel, Firmware, monitor, sensor>>

\* One round of the final while(1) { delay(1000); }
Halted ==
    /\ node.halted
    /\ node' = [node EXCEPT !.millis = Now(1)]
    /\ UNCHANGED <<Panel, Firmware, monitor, sensor>>

\* A pass of loop() whose interval has not elapsed.
LoopIdle ==
    \E d \in 1..MaxAdvance, after \in Associations :
        /\ ~node.halted
        /\ Associated(after)
        /\ ~Due(Now(d), node.lastCheck, Interval(node.kind))
        /\ node' = Idled(d)
        /\ UNCHANGED <<Panel, Firmware, monitor, sensor>>

\* A pass of loop() of the manual-capable actuator whose interval has elapsed.
ActuatorTick ==
    \E d \in 1..MaxAdvance, after \in Associations, r \in LoopPolls :
        /\ node.kind = "actuator"
        /\ ~node.halted
        /\ Associated(after)
        /\ Due(Now(d), node.lastCheck, COMMAND_CHECK_INTERVAL)
        /\ node' = Ticked(d, 1)
        /\ response' = r
        /\ actuator' = loop(actuator, r)
        /\ coldMoves' = coldMovesAfter(r)
        /\ beforeManual' = beforeManualAfter(r)
        /\ UNCHANGED <<Panel, older, monitor, sensor>>

\* A pass of loop() of the older actuator whose interval has elapsed.
OlderTick ==
    \E d \in 1..MaxAdvance, after \in Associations, r \in LoopPolls :
        /\ node.kind = "older"
        /\ ~node.halted
        /\ Associated(after)
        /\ Due(Now(d), node.lastCheck, COMMAND_CHECK_INTERVAL)
        /\ node' = Ticked(d, 1)
        /\ response' = r
        /\ older' = loop_old(older, r)
        /\ UNCHANGED <<Panel, actuator, coldMoves, beforeManual, monitor, sensor>>

\* A pass of loop() of the sensor board whose interval has elapsed.
SensorTick ==
    \E d \in 1..MaxAdvance, after \in Associations,
       h \in DhtReads, t \in DhtReads, g \in AnalogReads :
        /\ node.kind = "sensor"
        /\ ~node.halted
        /\ Associated(after)
        /\ Due(Now(d), node.lastCheck, READING_INTERVAL)
        /\ sensor' = loop_sensor(sensor, h, t, g)
        /\ node' = Ticked(d, Len(loop_sensor(sensor, h, t, g).posted))
        /\ UNCHANGED <<Panel, Firmware, monitor>>

LoopPass ==
    \/ LoopHalt
    \/ Halted
    \/ LoopIdle
    \/ ActuatorTick
    \/ OlderTick
    \/ SensorTick

NextLoop == WifiDrop \/ LoopPass

SpecLoop == InitLoop /\ [][NextLoop]_vars

\* The processor keeps executing loop().
SpecLoopFair == InitLoop /\ [][NextLoop]_vars /\ WF_vars(LoopPass)

\* A pass of loop() of the manual-capable actuator whose interval has elapsed and
\* whose poll succeeds with an automatic MOVE command.
ActuatorMoveTick ==
    \E d \in 1..MaxAdvance, r \in AutomaticPolls("move") :
        /\ node.kind = "actuator"
        /\ ~node.halted
        /\ Associated(0)
        /\ Due(Now(d), node.lastCheck, COMMAND_CHECK_INTERVAL)
        /\ node' = Ticked(d, 1)
        /\ response' = r
        /\ actuator' = loop(actuator, r)
        /\ coldMoves' = coldMovesAfter(r)
        /\ beforeManual' = beforeManualAfter(r)
        /\ UNCHANGED <<Panel, older, monitor, sensor>>

NextMove == LoopIdle \/ ActuatorMoveTick

\* The manual-capable actuator from cold start, WiFi up, every poll an automatic
\* MOVE; the processor keeps executing loop().
SpecMoveFair == Init /\ [][NextMove]_vars /\ WF_vars(NextMove)

\* ------------------------------------------------------------------------
\* End to end: operator, dashboard servo control, authority, manual-capable actuator.

Boards == <<older, node, sensor, monitor>>

\* The operator presses a position button; the authority stores the request and
\* answers success, or answers an error and stores nothing.
SetManualPosition ==
    \E position \in positions, ok \in BOOLEAN :
        /\ servo_config' = IF ok THEN set_servo_mode(servo_config, setManualPositionPayload(position))
                                 ELSE servo_config
        /\ control' = IF ok THEN Acknowledged([control EXCEPT !.currentPosition = position], TRUE)
                            ELSE Acknowledged(control, FALSE)
        /\ lastWrite' = IF ok THEN [by |-> "setManualPosition", position |-> position, polls |-> 0]
                              ELSE lastWrite
        /\ UNCHANGED <<actuator, response, coldMoves, beforeManual, Boards, pending>>

\* The operator presses a mode button.
SwitchMode ==
    \E newMode \in {"automatic", "manual"}, ok \in BOOLEAN :
        /\ servo_config' = IF ok THEN set_servo_mode(servo_config, switchModePayload(control, newMode))
                                 ELSE servo_config
        /\ control' = IF ok THEN Acknowledged([control EXCEPT !.mode = newMode], TRUE)
                            ELSE Acknowledged(control, FALSE)
        /\ lastWrite' = IF ok THEN [by |-> "switchMode", position |-> control.currentPosition,
                                    polls |-> 0]
                              ELSE lastWrite
        /\ UNCHANGED <<actuator, response, coldMoves, beforeManual, Boards, pending>>

\* The refresh timer of the dashboard reads the servo_config row.
FetchCurrentMode ==
    /\ control' = fetchCurrentMode(control, servo_config)
    /\ UNCHANGED <<servo_config, lastWrite, actuator, response, coldMoves, beforeManual, Boards, pending>>

\* A tick of the actuator whose poll succeeds.
PollCommand ==
    \E c \in {"move", "stop"}, met \in BOOLEAN :
        /\ response' = poll_command(servo_config, c, met)
        /\ actuator' = loop(actuator, poll_command(servo_config, c, met))
        /\ coldMoves' = coldMovesAfter(poll_command(servo_config, c, met))
        /\ beforeManual' = beforeManualAfter(poll_command(servo_config, c, met))
        /\ lastWrite' = [lastWrite EXCEPT !.polls = IF @ < 2 THEN @ + 1 ELSE @]
        /\ UNCHANGED <<control, servo_config, Boards, pending>>

\* A tick of the actuator whose poll fails.
PollFailure ==
    \E r \in TransportPolls \cup MalformedPolls \cup ErrorPolls :
        /\ response' = r
        /\ actuator' = loop(actuator, r)
        /\ coldMoves' = coldMovesAfter(r)
        /\ beforeManual' = beforeManualAfter(r)
        /\ UNCHANGED <<control, servo_config, lastWrite, Boards, pending>>

NextEndToEnd ==
    \/ SetManualPosition
    \/ SwitchMode
    \/ FetchCurrentMode
    \/ PollCommand
    \/ PollFailure

SpecEndToEnd == Init /\ [][NextEndToEnd]_vars

\* ------------------------------------------------------------------------
\* Dashboard servo control, request by request: every handler runs up to its
\* await, the authority answers, and the handler continues with the answer.

Outside == <<actuator, response, coldMoves, beforeManual, Boards>>

\* onMounted / the refresh timer call fetchCurrentMode(): the row is read now, or
\* the request fails.
FetchStart ==
    \E ok \in BOOLEAN :
        /\ pending.fetch.state = "idle"
        /\ pending' = [pending EXCEPT !.fetch = [state |-> IF ok THEN "read" ELSE "failed",
                                                 data |-> servo_config,
                                                 overtaken |-> FALSE, stale |-> FALSE]]
        /\ UNCHANGED <<control, servo_config, lastWrite, Outside>>

\* fetchCurrentMode() continues after its await.
FetchResolve ==
    /\ pending.fetch.state # "idle"
    /\ control' = IF pending.fetch.state = "read"
                  THEN fetchCurrentMode(control, pending.fetch.data) ELSE control
    /\ pending' = [pending EXCEPT !.fetch = NothingPending.fetch]
    /\ UNCHANGED <<servo_config, lastWrite, Outside>>

\* The operator presses a mode button (enabled unless loading or already in that
\* mode): switchMode(newMode) runs up to its await.
SwitchModeStart ==
    \E newMode \in {"automatic", "manual"} :
        /\ ~control.loading
        /\ control.mode # newMode
        /\ pending.call.state = "idle"
        /\ control' = [control EXCEPT !.loading = TRUE, !.message = "none"]
        /\ pending' = [pending EXCEPT !.call = [state |-> "sent", op |-> "switchMode",
                                                payload |-> switchModePayload(control, newMode),
                                                result |-> "none"]]
        /\ UNCHANGED <<servo_config, lastWrite, Outside>>

\* The operator presses a position button (shown in manual mode, enabled unless
\* loading): setManualPosition(position) runs up to its await.
SetManualPositionStart ==
    \E position \in positions :
        /\ ~control.loading
        /\ control.mode = "manual"
        /\ pending.call.state = "idle"
        /\ control' = [control EXCEPT !.loading = TRUE, !.message = "none"]
        /\ pending' = [pending EXCEPT !.call = [state |-> "sent", op |-> "setManualPosition",
                                                payload |-> setManualPositionPayload(position),
                                                result |-> "none"]]
        /\ UNCHANGED <<servo_config, lastWrite, Outside>>

\* The authority stores the request and answers success.
RequestStored ==
    /\ pending.call.state = "sent"
    /\ servo_config' = set_servo_mode(servo_config, pending.call.payload)
    /\ lastWrite' = [by |-> pending.call.op,
                     position |-> IF pending.call.payload.manual_position # Null
                                  THEN pending.call.payload.manual_position[1]
                                  ELSE lastWrite.position,
                     polls |-> 0]
    /\ pending' = [pending EXCEPT !.call.state = "answered", !.call.result = "success",
                                  !.fetch.overtaken = (pending.fetch.state = "read")]
    /\ UNCHANGED <<control, Outside>>

\* The authority answers success = false, or the request throws; nothing is stored.
RequestFailed ==
    \E result \in {"failure", "throws"} :
        /\ pending.call.state = "sent"
        /\ pending' = [pending EXCEPT !.call.state = "answered", !.call.result = result]
        /\ UNCHANGED <<control, servo_config, lastWrite, Outside>>

\* switchMode / setManualPosition continues after its await.
CallSettles ==
    /\ pending.call.state = "answered"
    /\ control' = settled(control, pending.call)
    /\ pending' = [pending EXCEPT !.call.state = "idle",
                                  !.fetch.stale = \/ @
                                                  \/ /\ pending.fetch.overtaken
                                                     /\ pending.call.result = "success"]
    /\ UNCHANGED <<servo_config, lastWrite, Outside>>

NextServoControl ==
    \/ FetchStart
    \/ FetchResolve
    \/ SwitchModeStart
    \/ SetManualPositionStart
    \/ RequestStored
    \/ RequestFailed
    \/ CallSettles

SpecServoControl == Init /\ [][NextServoControl]_vars

\* Every manual_position a payload carries lies in [0,180].
NextInRange ==
    \/ TransportFailure
    \/ MalformedPayload
    \/ CloudError
    \/ ManualCommandInRange
    \/ AutomaticMove
    \/ AutomaticStop
    \/ UnknownCommand
    \/ UnknownMode

SpecInRange == Init /\ [][NextInRange]_vars

\* Tick: mode is manual; manual_position is one of the dashboard's positions, or
\* is missing.
ManualCommandDashboard ==
    \E r \in ManualPolls(positions) :
        /\ response' = r
        /\ actuator' = loop(actuator, r)
        /\ older' = loop_old(older, r)
        /\ coldMoves' = coldMovesAfter(r)
        /\ beforeManual' = beforeManualAfter(r)
        /\ UNCHANGED <<Panel, monitor, node, sensor>>

\* The only manual positions ever commanded are those the dashboard offers.
NextDashboard ==
    \/ TransportFailure
    \/ MalformedPayload
    \/ CloudError
    \/ ManualCommandDashboard
    \/ AutomaticMove
    \/ AutomaticStop
    \/ UnknownCommand
    \/ UnknownMode

SpecDashboard == Init /\ [][NextDashboard]_vars

\* Tick: mode is automatic, command is move; the payload may also carry the
\* manual_position the operator stored last.
MoveCommand ==
    \E r \in AutomaticPolls("move") \cup StoredPositionPolls("move") :
        /\ response' = r
        /\ actuator' = loop(actuator, r)
        /\ older' = loop_old(older, r)
        /\ coldMoves' = coldMovesAfter(r)
        /\ beforeManual' = beforeManualAfter(r)
        /\ UNCHANGED <<Panel, monitor, node, sensor>>

\* Tick: mode is automatic, command is stop; the payload may also carry the
\* manual_position the operator stored last.
StopCommand ==
    \E r \in AutomaticPolls("stop") \cup StoredPositionPolls("stop") :
        /\ response' = r
        /\ actuator' = loop(actuator, r)
        /\ older' = loop_old(older, r)
        /\ coldMoves' = coldMovesAfter(r)
        /\ beforeManual' = beforeManualAfter(r)
        /\ UNCHANGED <<Panel, monitor, node, sensor>>

\* Every poll succeeds with an automatic MOVE or an automatic STOP.
NextAuto ==
    \/ MoveCommand
    \/ StopCommand

SpecAuto == Init /\ [][NextAuto]_vars

\* ------------------------------------------------------------------------
\* Properties.

Clamp(x, lo, hi) == IF x < lo THEN lo ELSE IF x > hi THEN hi ELSE x

\* position, phase, direction, should_move of a firmware state
PositionState(s) == <<s.currentPosition, s.isInitialPhase, s.movingUp, s.servoShouldMove>>

TypeOK ==
    /\ actuator.currentMode \in Modes
    /\ actuator.currentPosition \in Int
    /\ actuator.isInitialPhase \in BOOLEAN
    /\ actuator.movingUp \in BOOLEAN
    /\ actuator.servoShouldMove \in BOOLEAN
    /\ Len(actuator.myServo) <= 1
    /\ older.currentPosition \in Int
    /\ Len(older.myServo) <= 1
    /\ coldMoves \in -1..MaxColdMoves
    /\ node.kind \in NodeKinds
    /\ node.millis \in 0..(MILLIS_MODULUS - 1)
    /\ node.lastCheck \in 0..(MILLIS_MODULUS - 1)
    /\ node.wifi \in {"connected", "lost"}
    /\ node.halted \in BOOLEAN
    /\ node.ticked \in BOOLEAN
    /\ node.requests \in 0..1
    /\ sensor.isCalibrated
    /\ Len(sensor.posted) <= 1

\* C1: when every manual_position lies in [0,180] (SpecInRange), currentPosition
\* of the manual-capable firmware is in [0,180] in every reachable state.
C1_PositionInRange ==
    actuator.currentPosition >= MIN_ANGLE /\ actuator.currentPosition <= MAX_ANGLE

\* C2: after a tick that processed a manual command, whatever integer it carries,
\* the stored position is clamp(manual_position, 0, 180) and any value written to
\* the servo by that tick is that clamped value.
C2_ManualPositionClamped ==
    IsManual(response) =>
        /\ actuator.currentPosition = Clamp(ManualPos(response), MIN_ANGLE, MAX_ANGLE)
        /\ \A i \in 1..Len(actuator.myServo) :
               actuator.myServo[i] = Clamp(ManualPos(response), MIN_ANGLE, MAX_ANGLE)

\* C3: a manual tick leaves phase and direction unchanged, and the automatic MOVE
\* tick that follows manual ticks is the step of the state machine taken from the
\* manually set position with the phase and direction held before manual mode
\* was entered (the initial sweep is not restarted).
C3_ManualFreezesPhaseAndDirection ==
    [][ /\ IsManual(response') =>
              /\ actuator'.isInitialPhase = actuator.isInitialPhase
              /\ actuator'.movingUp = actuator.movingUp
        /\ IsManual(response) =>
              /\ actuator.isInitialPhase = beforeManual.isInitialPhase
              /\ actuator.movingUp = beforeManual.movingUp
        /\ (IsManual(response) /\ IsMove(response')) =>
              PositionState(actuator') =
                  PositionState(moveToNextPosition(
                      [currentMode |-> "automatic",
                       currentPosition |-> ManualPos(response),
                       isInitialPhase |-> beforeManual.isInitialPhase,
                       movingUp |-> beforeManual.movingUp,
                       servoShouldMove |-> TRUE,
                       myServo |-> <<>>]))
      ]_vars

\* C3 witness: an automatic MOVE tick has just resumed the oscillation after a
\* manual tick that was taken in the OSCILLATING phase while moving down.
C3_Witness ==
    /\ IsMove(response)
    /\ beforeManual.resumed
    /\ ~actuator.isInitialPhase
    /\ ~actuator.movingUp
    /\ actuator.currentPosition % STEP # 0

\* C4: the phase changes only from INITIAL_SWEEP to OSCILLATING, and only on an
\* automatic MOVE tick taken while the position is 0 in INITIAL_SWEEP.
C4_PhaseChangesOnlyAtZero ==
    [][ actuator'.isInitialPhase # actuator.isInitialPhase =>
            /\ actuator.isInitialPhase
            /\ ~actuator'.isInitialPhase
            /\ IsMove(response')
            /\ actuator.currentPosition = 0
      ]_vars

\* C5: movingUp changes value only on an automatic MOVE tick taken in the
\* OSCILLATING phase while the position is exactly 0 or exactly 180.
C5_DirectionFlipsOnlyAtBoundary ==
    [][ actuator'.movingUp # actuator.movingUp =>
            /\ IsMove(response')
            /\ ~actuator.isInitialPhase
            /\ actuator.currentPosition \in {MIN_ANGLE, MAX_ANGLE}
      ]_vars

\* C6: from cold start, while every tick is an automatic MOVE, the positions are
\* 90 (cold start), 60, 30, 0, 30, 60 (and 90 after the sixth tick), and the phase
\* is INITIAL_SWEEP up to the position 0 and OSCILLATING from the step to 30 on.
ColdSequence == <<90, 60, 30, 0, 30, 60, 90>>
C6_ColdStartSequence ==
    (coldMoves >= 0 /\ coldMoves < Len(ColdSequence)) =>
        /\ actuator.currentPosition = ColdSequence[coldMoves + 1]
        /\ actuator.isInitialPhase = (coldMoves <= 3)
        /\ actuator.servoShouldMove
        /\ actuator.currentMode = "automatic"

\* C6 witness: the fifth MOVE tick from cold start has been taken.
C6_Witness ==
    coldMoves = 5 /\ actuator.currentPosition = 60 /\ ~actuator.isInitialPhase

\* C7: in OSCILLATING, a MOVE tick from (180, UP) yields (150, DOWN) and a MOVE
\* tick from (0, DOWN) yields (30, UP).
C7_BoundaryReflection ==
    [][ (IsMove(response') /\ ~actuator.isInitialPhase) =>
            /\ (actuator.currentPosition = MAX_ANGLE /\ actuator.movingUp) =>
                  (actuator'.currentPosition = 150 /\ ~actuator'.movingUp)
            /\ (actuator.currentPosition = MIN_ANGLE /\ ~actuator.movingUp) =>
                  (actuator'.currentPosition = 30 /\ actuator'.movingUp)
      ]_vars

\* C7 witness: the reflection at 180 has just happened.
C7_Witness ==
    /\ IsMove(response)
    /\ ~actuator.isInitialPhase
    /\ actuator.currentPosition = 150
    /\ ~actuator.movingUp
    /\ actuator.myServo = <<150>>

\* C8: a tick that processes an automatic STOP sets should_move to false, issues
\* no servo write and leaves position, phase and direction unchanged, in the
\* manual-capable firmware and in the older firmware.
C8_StopHolds ==
    [][ IsStop(response') =>
            /\ ~actuator'.servoShouldMove
            /\ actuator'.myServo = <<>>
            /\ actuator'.currentPosition = actuator.currentPosition
            /\ actuator'.isInitialPhase = actuator.isInitialPhase
            /\ actuator'.movingUp = actuator.movingUp
            /\ ~older'.servoShouldMove
            /\ older'.myServo = <<>>
            /\ older'.currentPosition = older.currentPosition
            /\ older'.isInitialPhase = older.isInitialPhase
            /\ older'.movingUp = older.movingUp
      ]_vars

\* C8 witness: a STOP tick was processed after the servo had moved away from 90.
C8_Witness ==
    /\ IsStop(response)
    /\ ~actuator.servoShouldMove
    /\ ~actuator.isInitialPhase
    /\ actuator.currentPosition = 120
    /\ ~older.servoShouldMove

\* C9: a manual command whose manual_position equals the current position leaves
\* the position unchanged and issues no servo write; in particular the second of
\* two consecutive manual ticks with the same manual_position does.
C9_ManualIdempotent ==
    [][ /\ (IsManual(response') /\ ManualPos(response') = actuator.currentPosition) =>
              /\ actuator'.currentPosition = actuator.currentPosition
              /\ actuator'.myServo = <<>>
        /\ (IsManual(response) /\ IsManual(response')
                /\ ManualPos(response') = ManualPos(response)) =>
              /\ actuator'.currentPosition = actuator.currentPosition
              /\ actuator'.myServo = <<>>
      ]_vars

\* C9 witness: a manual tick held the position it asked for, without a write.
C9_Witness ==
    /\ IsManual(response)
    /\ response.has_manual_position
    /\ ManualPos(response) > MAX_ANGLE \div 2
    /\ actuator.currentPosition = ManualPos(response)
    /\ actuator.myServo = <<>>

\* C10 as stated: on a transport failure (GET code <= 0) the actuator state equals
\* the state of the previous tick and no servo write is issued, in both firmwares.
C10_TransportFailureHoldsBoth ==
    [][ IsTransportFailure(response') =>
            /\ actuator'.myServo = <<>>
            /\ PositionState(actuator') = PositionState(actuator)
            /\ actuator'.currentMode = actuator.currentMode
            /\ older'.myServo = <<>>
            /\ PositionState(older') = PositionState(older)
      ]_vars

\* C10 amended: on a transport failure the manual-capable firmware keeps
\* position, phase, direction, should_move and mode and issues no servo write.
C10_TransportFailureHolds ==
    [][ IsTransportFailure(response') =>
            /\ actuator'.myServo = <<>>
            /\ PositionState(actuator') = PositionState(actuator)
            /\ actuator'.currentMode = actuator.currentMode
      ]_vars

\* C10 witness: a poll failed while the position was held after a STOP.
C10_Witness ==
    /\ IsTransportFailure(response)
    /\ ~actuator.servoShouldMove
    /\ actuator.currentPosition = 60
    /\ actuator.myServo = <<>>

\* C11 as stated: when the payload cannot be parsed as JSON, position, phase,
\* direction and should_move at the end of the tick are those before the tick and
\* no servo write is issued, in both firmwares.
C11_MalformedHoldsBoth ==
    [][ IsMalformed(response') =>
            /\ actuator'.myServo = <<>>
            /\ PositionState(actuator') = PositionState(actuator)
            /\ older'.myServo = <<>>
            /\ PositionState(older') = PositionState(older)
      ]_vars

\* C11 amended: when the payload cannot be parsed as JSON, the manual-capable
\* firmware keeps position, phase, direction, should_move (and mode) and issues
\* no servo write.
C11_MalformedHolds ==
    [][ IsMalformed(response') =>
            /\ actuator'.myServo = <<>>
            /\ PositionState(actuator') = PositionState(actuator)
            /\ actuator'.currentMode = actuator.currentMode
      ]_vars

\* C11 witness: a malformed payload arrived while the servo was moving in the
\* OSCILLATING phase, and nothing was written.
C11_Witness ==
    /\ IsMalformed(response)
    /\ actuator.servoShouldMove
    /\ ~actuator.isInitialPhase
    /\ actuator.currentPosition = 120
    /\ actuator.myServo = <<>>

\* C12: after a sensor tick whose DHT read returned NaN for temperature or
\* humidity, nothing has been posted by that tick.
C12_NoPostOnInvalidRead ==
    (node.kind = "sensor" /\ node.ticked
        /\ (isnan(sensor.temperature) \/ isnan(sensor.humidity)))
    => sensor.posted = <<>>

\* C13: a board always performs another tick, whatever happens to its WiFi.
C13_AlwaysAnotherTick == []<>(node.ticked)

Relation(v, op, t) ==
    CASE op = ">" -> v > t
      [] op = "<" -> v < t
      [] op = ">=" -> (v > t \/ v = t)
      [] op = "<=" -> (v < t \/ v = t)
      [] op = "=" -> v = t

Configured(n) == getThresholdForSensor(monitor.thresholds, n) # Null
ConfigOf(n) == getThresholdForSensor(monitor.thresholds, n)[1]
Present(n) == ValueOf(monitor.reading, n) # Null
Val(n) == ValueOf(monitor.reading, n)[1]

\* C15: when every poll is an automatic MOVE, the position never leaves [0,180],
\* it only descends while the initial phase lasts, the initial phase ends at 0 and
\* is never entered again, and 0 and 180 are both visited infinitely often.
C15_MoveOscillatesForever ==
    /\ [](actuator.currentPosition \in MIN_ANGLE..MAX_ANGLE)
    /\ [][actuator.isInitialPhase /\ actuator'.isInitialPhase
            => actuator'.currentPosition <= actuator.currentPosition]_vars
    /\ [][actuator.isInitialPhase /\ ~actuator'.isInitialPhase
            => actuator.currentPosition = MIN_ANGLE]_vars
    /\ [][~actuator.isInitialPhase => ~actuator'.isInitialPhase]_vars
    /\ <>[](~actuator.isInitialPhase)
    /\ []<>(actuator.currentPosition = MIN_ANGLE)
    /\ []<>(actuator.currentPosition = MAX_ANGLE)

\* C15 witness: the oscillation has reached 180.
C15_Witness ==
    /\ ~actuator.isInitialPhase
    /\ actuator.currentPosition = MAX_ANGLE
    /\ response.command = "move"
    /\ node.ticked

\* C16: for a sensor that has a configured threshold (and a value), checkThreshold
\* returns exactly the truth value of  value op threshold_value.
C16_CheckThresholdIsRelation ==
    \A n \in Sensors :
        (Configured(n) /\ Present(n)) =>
            monitor.met[n] = Some(Relation(Val(n), ConfigOf(n).comparison_operator,
                                           ConfigOf(n).threshold_value))

\* C16 witness: a '>=' threshold is shown as met for a value equal to the threshold.
C16_Witness ==
    /\ Configured("humidity")
    /\ ConfigOf("humidity").comparison_operator = ">="
    /\ Val("humidity") = ConfigOf("humidity").threshold_value
    /\ monitor.met["humidity"] = Some(TRUE)

\* C17: a sensor with no configured threshold, or with a configured threshold but
\* no reading value, gets neither true nor false from the evaluator.
C17_UnconfiguredOrAbsentExcluded ==
    \A n \in Sensors :
        (~Configured(n) \/ ~Present(n)) => monitor.met[n] = Null

\* C18: all_met is true iff every sensor that has a configured threshold (and a
\* reading value) satisfies it; it is true when no threshold is configured.
C18_AllMetIsConjunction ==
    /\ monitor.all_met <=>
          \A n \in Sensors :
              (Configured(n) /\ Present(n)) =>
                  Relation(Val(n), ConfigOf(n).comparison_operator,
                           ConfigOf(n).threshold_value)
    /\ monitor.thresholds = <<>> => monitor.all_met
    /\ \A c \in ThresholdConfigs :
          ~Present(c.sensor_name) =>
              allMet(monitor.reading, Append(monitor.thresholds, c)) = monitor.all_met

\* C18 witness: gas has a configured threshold and no reading, another sensor
\* fails its threshold, so all_met is false because of that sensor alone.
C18_Witness ==
    /\ Configured("gas")
    /\ ~Present("gas")
    /\ Configured("temperature")
    /\ monitor.met["temperature"] = Some(FALSE)
    /\ ~monitor.all_met

\* C19: each tick issues exactly one request (no request outside a tick), a tick
\* of either actuator firmware writes the servo at most once, and a tick begins
\* at least the configured interval after the previous tick began.
C19_OneRequestPerTick ==
    /\ node.ticked => node.requests = 1
    /\ ~node.ticked => node.requests = 0
    /\ node.kind = "sensor" /\ node.ticked => Len(sensor.posted) = 1
    /\ Len(actuator.myServo) <= 1
    /\ Len(older.myServo) <= 1
    /\ node.ticked /\ node.elapsed >= 0 => node.elapsed >= Interval(node.kind)

\* C19 witness: a second tick of the older firmware that moved the servo.
C19_Witness ==
    /\ node.kind = "older"
    /\ node.ticked
    /\ node.elapsed >= COMMAND_CHECK_INTERVAL
    /\ node.requests = 1
    /\ Len(older.myServo) = 1

\* C20: currentMode is automatic or manual in every reachable state, whatever
\* mode string a parsed payload carries.
C20_ModeIsAutomaticOrManual ==
    actuator.currentMode \in {"automatic", "manual"}

\* The positions in the thresholds list of the configs of sensor n.
Matches(n) == {i \in 1..Len(monitor.thresholds) : monitor.thresholds[i].sensor_name = n}
FirstMatch(n) == monitor.thresholds[CHOOSE i \in Matches(n) : \A j \in Matches(n) : i <= j]

\* C21: for every sensor that has configs in the list, getThresholdForSensor
\* returns the first of them in list order, and the indicator shown is the one the
\* list holding only that config would give.
C21_FirstMatchWins ==
    \A n \in Sensors :
        Matches(n) # {} =>
            /\ getThresholdForSensor(monitor.thresholds, n) = Some(FirstMatch(n))
            /\ monitor.met[n] = StatusIndicators(monitor.reading, <<FirstMatch(n)>>)[n]
            /\ Present(n) =>
                  monitor.met[n] = Some(Relation(Val(n), FirstMatch(n).comparison_operator,
                                                 FirstMatch(n).threshold_value))

\* C21 witness: two configs of temperature that disagree on the current value;
\* the indicator follows the first.
C21_Witness ==
    /\ Len(monitor.thresholds) = 2
    /\ monitor.thresholds[1].sensor_name = "temperature"
    /\ monitor.thresholds[2].sensor_name = "temperature"
    /\ Relation(monitor.reading.temperature, monitor.thresholds[1].comparison_operator,
                monitor.thresholds[1].threshold_value)
       # Relation(monitor.reading.temperature, monitor.thresholds[2].comparison_operator,
                  monitor.thresholds[2].threshold_value)
    /\ monitor.met["temperature"]
       = Some(Relation(monitor.reading.temperature, monitor.thresholds[1].comparison_operator,
                       monitor.thresholds[1].threshold_value))

\* C22: an automatic MOVE tick taken in INITIAL_SWEEP at a position p in [0,180]
\* yields p - 30 and stays in INITIAL_SWEEP when p - 30 >= 0, and otherwise yields
\* 30 in OSCILLATING with direction UP.
C22_InitialSweepStep ==
    [][ (IsMove(response') /\ actuator.isInitialPhase
            /\ actuator.currentPosition \in MIN_ANGLE..MAX_ANGLE) =>
            IF actuator.currentPosition - STEP >= 0
            THEN /\ actuator'.currentPosition = actuator.currentPosition - STEP
                 /\ actuator'.isInitialPhase
            ELSE /\ actuator'.currentPosition = STEP
                 /\ ~actuator'.isInitialPhase
                 /\ actuator'.movingUp ]_vars

\* C23: in OSCILLATING a MOVE tick from (p, UP), p in [0,180), yields
\* min(p + 30, 180) with the direction kept, and from (p, DOWN), p in (0,180],
\* yields max(p - 30, 0) with the direction kept; a MOVE tick taken at 180 steps
\* to 150 heading DOWN and one taken at 0 steps to 30 heading UP, so a boundary
\* value is never held over two consecutive MOVE ticks.
C23_OscillationStep ==
    [][ (IsMove(response') /\ ~actuator.isInitialPhase) =>
            /\ ~actuator'.isInitialPhase
            /\ (actuator.movingUp /\ actuator.currentPosition \in MIN_ANGLE..(MAX_ANGLE - 1)) =>
                  /\ actuator'.currentPosition
                        = Clamp(actuator.currentPosition + STEP, MIN_ANGLE, MAX_ANGLE)
                  /\ actuator'.movingUp
            /\ (~actuator.movingUp /\ actuator.currentPosition \in (MIN_ANGLE + 1)..MAX_ANGLE) =>
                  /\ actuator'.currentPosition
                        = Clamp(actuator.currentPosition - STEP, MIN_ANGLE, MAX_ANGLE)
                  /\ ~actuator'.movingUp
            /\ actuator.currentPosition = MAX_ANGLE =>
                  (actuator'.currentPosition = MAX_ANGLE - STEP /\ ~actuator'.movingUp)
            /\ actuator.currentPosition = MIN_ANGLE =>
                  (actuator'.currentPosition = MIN_ANGLE + STEP /\ actuator'.movingUp) ]_vars

\* C23 witness: an upward MOVE step has reached 180 with the direction still UP.
C23_Witness ==
    /\ IsMove(response)
    /\ ~actuator.isInitialPhase
    /\ actuator.movingUp
    /\ actuator.currentPosition = MAX_ANGLE
    /\ actuator.myServo = <<MAX_ANGLE>>
    /\ coldMoves = -1

\* C24: an automatic MOVE tick changes the position by exactly 30 in absolute
\* value, unless the new position is the boundary 0 or 180.
C24_StepIsThirty ==
    [][ IsMove(response') =>
            \/ actuator'.currentPosition - actuator.currentPosition = STEP
            \/ actuator.currentPosition - actuator'.currentPosition = STEP
            \/ actuator'.currentPosition \in {MIN_ANGLE, MAX_ANGLE} ]_vars

\* C25: from the current state and from any state that differs from it only in
\* currentMode, a tick that processes the same successfully parsed command ends
\* with the same position, phase, direction and should_move and issues the same
\* servo writes; currentMode ends as the mode of the command in both.
C25_ModeChangeForcesNoReset ==
    \A r \in ParsedPolls, m \in Modes :
        LET a == loop(actuator, r)
            b == loop([actuator EXCEPT !.currentMode = m], r)
        IN  /\ PositionState(a) = PositionState(b)
            /\ a.myServo = b.myServo
            /\ a.currentMode = r.mode
            /\ b.currentMode = r.mode

\* C25 witness: the mode changed from manual to automatic in the last tick, in
\* OSCILLATING, and the tick stepped the servo once.
C25_Witness ==
    /\ IsMove(response)
    /\ beforeManual.resumed
    /\ actuator.currentMode = "automatic"
    /\ ~actuator.isInitialPhase
    /\ Len(actuator.myServo) = 1

\* C26: in the older firmware a tick whose GET fails, or whose payload parses with
\* success not true, ends with should_move true and with the position, phase and
\* direction one moveToNextPosition step further, written to the servo once.
C26_OlderFailsOpen ==
    [][ (IsTransportFailure(response') \/ IsCloudError(response')) =>
            /\ older'.servoShouldMove
            /\ PositionState(older')
                 = PositionState(moveToNextPosition_old([older EXCEPT !.servoShouldMove = TRUE]))
            /\ older'.currentPosition # older.currentPosition
            /\ older'.myServo = <<older'.currentPosition>> ]_vars

\* C26 witness: the last command received was STOP, the poll then failed, and the
\* older firmware stepped the servo.
C26_Witness ==
    /\ IsTransportFailure(response)
    /\ ~actuator.servoShouldMove
    /\ older.servoShouldMove
    /\ Len(older.myServo) = 1
    /\ older.currentPosition # actuator.currentPosition

\* C27: once the authority has stored a setManualPosition(p) and the actuator has
\* polled successfully since, with no operator request stored in between, the
\* position of the actuator is p, after the first such poll and after every later
\* tick.
C27_ManualPositionReachesActuator ==
    (lastWrite.by = "setManualPosition" /\ lastWrite.polls >= 1)
    => actuator.currentPosition = lastWrite.position

\* C27 witness: setManualPosition(p) interrupted the oscillation, and the second
\* successful poll after it still finds the actuator at p.
C27_Witness ==
    /\ lastWrite.by = "setManualPosition"
    /\ lastWrite.polls = 2
    /\ IsManual(response)
    /\ ~actuator.isInitialPhase
    /\ actuator.currentPosition = lastWrite.position
    /\ actuator.currentPosition # 0
    /\ control.currentPosition = lastWrite.position

\* C28: when every poll succeeds with an automatic MOVE or STOP, the two firmwares
\* have the same position, phase, direction and should_move after every tick.
C28_VariantsAgree ==
    PositionState(actuator) = PositionState(older)

\* C28 witness: after at least one STOP, both firmwares are in OSCILLATING,
\* heading DOWN from the same position they have just stepped to.
C28_Witness ==
    /\ IsMove(response)
    /\ coldMoves = -1
    /\ ~actuator.isInitialPhase
    /\ ~actuator.movingUp
    /\ ~older.movingUp
    /\ older.myServo = <<actuator.currentPosition>>

\* C29: when every manual position commanded is one the dashboard offers, the
\* position of the actuator is a multiple of 30 within [0,180] in every state.
C29_PositionOnGrid ==
    /\ actuator.currentPosition % STEP = 0
    /\ actuator.currentPosition >= MIN_ANGLE
    /\ actuator.currentPosition <= MAX_ANGLE

\* C29 witness: a manual command raised the position during the initial sweep
\* and the MOVE tick that followed stepped down from it.
C29_Witness ==
    /\ IsMove(response)
    /\ beforeManual.resumed
    /\ actuator.isInitialPhase
    /\ actuator.currentPosition > INITIAL_ANGLE
    /\ Len(actuator.myServo) = 1

\* C30: a tick that processes a manual command without manual_position ends with
\* position 0, and writes 0 to the servo when the position was not 0 before.
C30_MissingPositionIsZero ==
    [][ (IsManual(response') /\ ~response'.has_manual_position) =>
            /\ actuator'.currentPosition = 0
            /\ actuator.currentPosition # 0 => actuator'.myServo = <<0>> ]_vars

\* C30 witness: a manual command without manual_position has driven the servo to
\* 0 during the initial sweep.
C30_Witness ==
    /\ IsManual(response)
    /\ ~response.has_manual_position
    /\ actuator.isInitialPhase
    /\ actuator.currentPosition = 0
    /\ actuator.myServo = <<0>>

\* C31: a tick of the manual-capable firmware whose payload parses with success =
\* true, and whose mode is neither automatic nor manual or whose automatic command
\* is neither move nor stop, keeps position, phase, direction and should_move and
\* issues no servo write.
C31_UnknownCommandHolds ==
    [][ (IsParsed(response')
            /\ \/ response'.mode \notin {"automatic", "manual"}
               \/ (response'.mode = "automatic" /\ response'.command \notin {"move", "stop"})) =>
            /\ PositionState(actuator') = PositionState(actuator)
            /\ actuator'.myServo = <<>> ]_vars

\* C31 witness: an automatic payload with an unknown command arrived while the
\* servo was oscillating, and nothing was written.
C31_Witness ==
    /\ IsAutomatic(response)
    /\ response.command \notin {"move", "stop"}
    /\ actuator.servoShouldMove
    /\ ~actuator.isInitialPhase
    /\ actuator.myServo = <<>>

\* C32: whenever loop() evaluates the tick condition, d seconds after the previous
\* pass, the condition on the wrapped counters is true exactly when the time that
\* really passed since the previous tick began is at least the interval.
C32_DueIffIntervalElapsed ==
    (~node.halted /\ node.sinceTick >= 0) =>
        \A d \in 1..MaxAdvance :
            Due(Now(d), node.lastCheck, Interval(node.kind))
                <=> (node.sinceTick + d >= Interval(node.kind))

\* C32 witness: a tick began after millis() had wrapped to 0, the previous tick
\* having begun before the wrap.
C32_Witness ==
    /\ node.ticked
    /\ node.elapsed >= Interval(node.kind)
    /\ node.millis < node.elapsed
    /\ node.lastCheck = node.millis
    /\ ~node.halted

\* C33: when a call of switchMode or setManualPosition settles, loading is false,
\* and the displayed mode and currentPosition are as before unless the answer had
\* success = true; no other step of a call changes them, and loading is false
\* whenever no call is in flight.
C33_LoadingClearedDisplayKept ==
    /\ [][ (pending.call.state = "answered" /\ pending'.call.state = "idle") =>
                /\ ~control'.loading
                /\ pending.call.result # "success" =>
                      /\ control'.mode = control.mode
                      /\ control'.currentPosition = control.currentPosition ]_vars
    /\ [][ (pending.call.state # "answered" /\ pending'.call # pending.call) =>
                /\ control'.mode = control.mode
                /\ control'.currentPosition = control.currentPosition ]_vars
    /\ [](pending.call.state = "idle" => ~control.loading)

\* C33 witness: a setManualPosition call threw; it has settled with loading false
\* and the display unchanged.
C33_Witness ==
    /\ pending.call.state = "idle"
    /\ pending.call.op = "setManualPosition"
    /\ pending.call.result = "throws"
    /\ pending.call.payload.manual_position # Some(control.currentPosition)
    /\ ~control.loading
    /\ control.message = "error"

\* C34: a fetchCurrentMode whose row was read before the authority stored an
\* operator request, and that continues after the success of that request has been
\* displayed, does not change the displayed mode and currentPosition.
C34_NoStaleRevert ==
    [][ (pending.fetch.state = "read" /\ pending.fetch.stale
            /\ pending'.fetch.state = "idle") =>
            /\ control'.mode = control.mode
            /\ control'.currentPosition = control.currentPosition ]_vars
====
